---- MODULE Spec2Model ----
(***************************************************************************)
(* State-machine model of the persistence layer of the task manager        *)
(* (src/database.js), of the helpers it uses (the configuration section of *)
(* src/server.js: sanitizeInput, hashPassword, verifyPassword, generateId) *)
(* and of the HTTP routes that call it (src/server.js).                    *)
(*                                                                         *)
(* The two JSON files are the only persistent state.  Node runs every      *)
(* store operation synchronously to completion, so each operation is one   *)
(* action: read the whole file, mutate in memory, write the whole file,    *)
(* return.  A store operation is modelled by an operator that maps what    *)
(* it reads and its arguments to an outcome                                *)
(*     [wrote, content, ret]                                               *)
(* (did writeFileSync complete, what it wrote, what the call returned);    *)
(* saveUsers/saveTasks apply the outcome to the file.  The variable `last` *)
(* records the most recent call: its name, arguments and return value.     *)
(*                                                                         *)
(* A write that throws leaves the file as it was or torn (saveUsers,       *)
(* saveTasks).  A file may also become unreadable, or hold a JSON value    *)
(* that is no array, through actions of the environment.  For the          *)
(* deployments with several requests or processes, createTask and          *)
(* deleteTask are also given in two steps, Begin and Finish, with the       *)
(* array held in between recorded in `inFlight`.                           *)
(***************************************************************************)
EXTENDS Integers, Sequences, FiniteSets, TLC

VARIABLES
    usersFile,    \* parsed content of data/users.json: a sequence of user records
    usersFileOk,  \* TRUE iff readFileSync + JSON.parse of users.json succeed
    tasksFile,    \* parsed content of data/tasks.json: a sequence of task records
    tasksFileOk,  \* TRUE iff readFileSync + JSON.parse of tasks.json succeed
    now,          \* the wall clock read by new Date()
    last,         \* the most recent call: [op, args, wrote, ret, ...]
    inFlight,     \* per request: the store operation it is inside (it has read
                  \* the file and not yet written it), with the array it holds
    acknowledged, \* ids of the tasks whose creation returned success and whose
                  \* deletion has not
    notArray,     \* the files ("users", "tasks") whose content parses to a JSON
                  \* value that is truthy and no array, such as {} or "x"
    session,      \* per client (cookie): req.session.userId, null when the
                  \* session has none
    loggedIn      \* per client: the user whose login was the last to succeed,
                  \* null before any and after a logout

vars == <<usersFile, usersFileOk, tasksFile, tasksFileOk, now, last,
          inFlight, acknowledged, notArray, session, loggedIn>>

\* what an operation called as a whole, over files that hold arrays, leaves
\* alone
aside == <<inFlight, acknowledged, notArray, session, loggedIn>>

(***************************************************************************)
(* Bounds of the model.                                                    *)
(***************************************************************************)
\* generateId() draws from a pool of MaxIds tokens
MaxIds == 2
\* the clock stops advancing at MaxClock
MaxClock == 1
\* longest raw string a request carries in a sanitized field
MaxLen == 2

\* JavaScript's null (the default of getTasks' userId parameter); falsy
null == 0
\* JavaScript's undefined (a field absent from a request body); falsy.  A
\* one-element sequence whose element is no character, so that it differs
\* from every string.
undefined == <<"undefined">>

IdPool == 1..MaxIds

(***************************************************************************)
(* Helpers of the configuration section.                                   *)
(***************************************************************************)
\* crypto.createHash('sha256').update(password).digest('hex'): a fixed
\* function of the plaintext, given here on the passwords of the model
\* (SHA-256 is collision-free on them, and no password is its own digest).
sha256hex(password) ==
    CASE password = "pw1" ->
            "c592df4a86933b92addc9842402ddf198c638ea9be58916ee6e3734e1e3152f8"
      [] password = "pw2" ->
            "93915a0a4bf8f634cb1856494dd4304472ad46b9827f541f76b6761c49cc55b0"
      [] OTHER ->
            "e3b0c44298fc1c149afbf4c8996fb92427ae41e4649b934ca495991b7852b855"

hashPassword(password) == sha256hex(password)

verifyPassword(password, hash) == sha256hex(password) = hash

\* generateId(): crypto.randomBytes(16) in hex.  Any token of the pool that
\* no record of the collection carries (a 128-bit random token does not
\* repeat).
generateId(used) == IdPool \ used

\* Strings that pass through sanitizeInput are sequences of characters.
\* String.prototype.trim, on the whitespace of the model (the space).
RECURSIVE trimStart(_)
trimStart(s) == IF s # <<>> /\ Head(s) = " " THEN trimStart(Tail(s)) ELSE s

RECURSIVE trimEnd(_)
trimEnd(s) ==
    IF s # <<>> /\ s[Len(s)] = " " THEN trimEnd(SubSeq(s, 1, Len(s) - 1)) ELSE s

trim(s) == trimEnd(trimStart(s))

\* typeof data !== 'string': undefined is the only non-string of the model
isString(data) == data # undefined

\* sanitizeInput(data): non-strings are returned as they are
sanitizeInput(data) ==
    IF ~isString(data)
    THEN data
    ELSE LET keep(c) == c \notin {"<", ">"} IN SelectSeq(trim(data), keep)

\* JavaScript truthiness of a request field: undefined and the empty string
\* are falsy
truthy(v) == v # undefined /\ v # <<>>

\* JavaScript truthiness of an id-valued expression: null is falsy
truthyId(id) == id # null

\* a || b
orElse(a, b) == IF truthy(a) THEN a ELSE b

\* Array.prototype.findIndex, given the set of indices that satisfy the
\* test: the least of them, or 0 when there is none (JavaScript: -1)
findIndex(matching) ==
    IF matching = {} THEN 0
    ELSE CHOOSE i \in matching : \A j \in matching : i <= j

\* faulty variant of splice: tasks.splice(taskIndex), without the count,
\* removes every element from the index on
spliceToEnd(seq, i) == SubSeq(seq, 1, i - 1)

\* Array.prototype.splice(i, 1)
splice(seq, i) == SubSeq(seq, 1, i - 1) \o SubSeq(seq, i + 1, Len(seq))

\* the ids carried by the records of a collection
idsOf(records) == {records[i].id : i \in 1..Len(records)}

(***************************************************************************)
(* Users.                                                                  *)
(***************************************************************************)
\* Database.getUsers: the parsed file, or [] when reading or parsing throws
getUsers == IF usersFileOk THEN usersFile ELSE <<>>

\* the messages of the results returned when saveUsers or saveTasks
\* returned false
WriteErrors ==
    {"Erro ao criar usuario", "Erro ao criar tarefa",
     "Erro ao atualizar tarefa", "Erro ao excluir tarefa"}

\* the operation called writeFileSync and it threw
writeFailed(out) ==
    ~out.wrote /\ (out.ret.success \/ out.ret.message \in WriteErrors)

\* Database.saveUsers, applied to the outcome of a call.  writeFileSync
\* opens the file with flag 'w', which truncates it, and then writes: when it
\* throws, the file is either as it was (the open failed) or torn (the write
\* failed after the truncation: the content is lost and what is left does
\* not parse).
saveUsers(out) ==
    IF out.wrote
    THEN usersFile' = out.content /\ usersFileOk' = TRUE
    ELSE IF writeFailed(out)
    THEN \/ UNCHANGED <<usersFile, usersFileOk>>
         \/ usersFile' = <<>> /\ usersFileOk' = FALSE
    ELSE UNCHANGED <<usersFile, usersFileOk>>

\* faulty variant of userView: the whole stored record, digest included
userViewWhole(user) == user

\* the redacted view returned by authenticateUser and getUserById
userView(user) == [id |-> user.id, username |-> user.username, email |-> user.email]

\* faulty variant of existingUser: the email is not compared
existingUserByName(users, username, email) ==
    findIndex({i \in 1..Len(users) : users[i].username = username})

\* users.find(user => user.username === username || user.email === email)
existingUser(users, username, email) ==
    findIndex({i \in 1..Len(users) :
                  users[i].username = username \/ users[i].email = email})

\* Database.createUser(username, email, password), with `id` the token
\* generateId() returns and `wok` whether writeFileSync completes
createUser(username, email, password, id, wok) ==
    LET users == getUsers
    IN  IF existingUser(users, username, email) # 0
        THEN [wrote |-> FALSE, content |-> users,
              ret |-> [success |-> FALSE, message |-> "Usuario ou email ja existe"]]
        ELSE LET newUser == [id |-> id, username |-> username, email |-> email,
                             password |-> hashPassword(password), createdAt |-> now]
             IN  [wrote |-> wok, content |-> Append(users, newUser),
                  ret |-> IF wok
                          THEN [success |-> TRUE, userId |-> newUser.id]
                          ELSE [success |-> FALSE, message |-> "Erro ao criar usuario"]]

\* the test of authenticateUser's find
credentialsMatch(user, username, password) ==
    /\ (user.username = username \/ user.email = username)
    /\ verifyPassword(password, user.password)

\* Database.authenticateUser(username, password): the value returned
authenticateUser(username, password) ==
    LET users == getUsers
        i == findIndex({k \in 1..Len(users) :
                            credentialsMatch(users[k], username, password)})
    IN  IF i # 0
        THEN [success |-> TRUE, user |-> userView(users[i])]
        ELSE [success |-> FALSE, message |-> "Usuario ou senha incorretos"]

\* the null that getUserById returns when no record has the id
nullUser == [null |-> TRUE]

\* Database.getUserById(userId): the value returned
getUserById(userId) ==
    LET users == getUsers
        i == findIndex({k \in 1..Len(users) : users[k].id = userId})
    IN  IF i # 0 THEN userView(users[i]) ELSE nullUser

(***************************************************************************)
(* Tasks.                                                                  *)
(***************************************************************************)
\* the priority strings the store and the statistics name
high == <<"h", "i", "g", "h">>
medium == <<"m", "e", "d", "i", "u", "m">>
low == <<"l", "o", "w">>

\* faulty variant of getTasks: the owner filter is missing
getTasksUnscoped(userId) == IF tasksFileOk THEN tasksFile ELSE <<>>

\* faulty variant of getTasks: the records are returned although the file
\* cannot be read
getTasksCached(userId) ==
    IF truthyId(userId)
    THEN LET owned(task) == task.userId = userId
         IN  SelectSeq(tasksFile, owned)
    ELSE tasksFile

\* faulty variant of getTasks: the filter keeps the tasks of the other users
getTasksOfOthers(userId) ==
    IF tasksFileOk
    THEN IF truthyId(userId)
         THEN LET others(task) == task.userId # userId
              IN  SelectSeq(tasksFile, others)
         ELSE tasksFile
    ELSE <<>>

\* Database.getTasks(userId): the parsed file, filtered by owner when
\* userId is truthy; [] when reading or parsing throws
getTasks(userId) ==
    IF tasksFileOk
    THEN IF truthyId(userId)
         THEN LET owned(task) == task.userId = userId
              IN  SelectSeq(tasksFile, owned)
         ELSE tasksFile
    ELSE <<>>

\* the properties of a task that hold a string of the request, and so may
\* hold undefined
StringFields == {"title", "description", "priority"}

\* JSON.parse(JSON.stringify(tasks, null, 2)): what is read back from what
\* saveTasks writes.  JSON.stringify omits a property whose value is
\* undefined, so the record read back does not have it.
stringifyTasks(tasks) ==
    [i \in 1..Len(tasks) |->
        [f \in {g \in DOMAIN tasks[i] :
                    g \in StringFields => tasks[i][g] # undefined} |->
            tasks[i][f]]]

\* Database.saveTasks, applied to the outcome of a call; a write that throws
\* leaves the file as it was or torn, as in saveUsers
saveTasks(out) ==
    IF out.wrote
    THEN tasksFile' = stringifyTasks(out.content) /\ tasksFileOk' = TRUE
    ELSE IF writeFailed(out)
    THEN \/ UNCHANGED <<tasksFile, tasksFileOk>>
         \/ tasksFile' = <<>> /\ tasksFileOk' = FALSE
    ELSE UNCHANGED <<tasksFile, tasksFileOk>>

\* faulty variant of createTask: the result of saveTasks is ignored
createTaskAlwaysSuccess(userId, title, description, priority, id, wok) ==
    LET tasks == getTasks(null)
        newTask == [id |-> id, userId |-> userId, title |-> title,
                    description |-> description, priority |-> priority,
                    completed |-> FALSE, createdAt |-> now, updatedAt |-> now]
    IN  [wrote |-> wok, content |-> Append(tasks, newTask),
         ret |-> [success |-> TRUE, taskId |-> newTask.id]]

\* faulty variant of createTask: the new task starts completed
createTaskCompleted(userId, title, description, priority, id, wok) ==
    LET tasks == getTasks(null)
        newTask == [id |-> id, userId |-> userId, title |-> title,
                    description |-> description, priority |-> priority,
                    completed |-> TRUE, createdAt |-> now, updatedAt |-> now]
    IN  [wrote |-> wok, content |-> Append(tasks, newTask),
         ret |-> IF wok
                 THEN [success |-> TRUE, taskId |-> newTask.id]
                 ELSE [success |-> FALSE, message |-> "Erro ao criar tarefa"]]

\* Database.createTask(userId, title, description, priority), with `id` the
\* token generateId() returns and `wok` whether writeFileSync completes
createTask(userId, title, description, priority, id, wok) ==
    LET tasks == getTasks(null)
        newTask == [id |-> id, userId |-> userId, title |-> title,
                    description |-> description, priority |-> priority,
                    completed |-> FALSE, createdAt |-> now, updatedAt |-> now]
    IN  [wrote |-> wok, content |-> Append(tasks, newTask),
         ret |-> IF wok
                 THEN [success |-> TRUE, taskId |-> newTask.id]
                 ELSE [success |-> FALSE, message |-> "Erro ao criar tarefa"]]

\* faulty variant of findTask: the owner is not compared
findTaskById(tasks, taskId, userId) ==
    findIndex({i \in 1..Len(tasks) : tasks[i].id = taskId})

\* tasks.findIndex(task => task.id === taskId && task.userId === userId)
findTask(tasks, taskId, userId) ==
    findIndex({i \in 1..Len(tasks) :
                  tasks[i].id = taskId /\ tasks[i].userId = userId})

\* the result of updateTask, deleteTask and toggleTaskCompletion when
\* findIndex returns -1
notFound == [success |-> FALSE, message |-> "Tarefa nao encontrada"]

\* faulty variant of mergeTask: the stored task is replaced by the patch
mergeTaskReplace(task, data, time) ==
    [f \in DOMAIN data \cup {"id", "userId", "updatedAt"} |->
        IF f = "updatedAt" THEN time
        ELSE IF f \in DOMAIN data THEN data[f]
        ELSE task[f]]

\* { ...tasks[taskIndex], ...data, updatedAt: new Date().toISOString() }
mergeTask(task, data, time) ==
    [f \in DOMAIN task \cup DOMAIN data \cup {"updatedAt"} |->
        IF f = "updatedAt" THEN time
        ELSE IF f \in DOMAIN data THEN data[f]
        ELSE task[f]]

\* Database.updateTask(taskId, userId, data)
updateTask(taskId, userId, data, wok) ==
    LET tasks == getTasks(null)
        taskIndex == findTask(tasks, taskId, userId)
    IN  IF taskIndex = 0
        THEN [wrote |-> FALSE, content |-> tasks, ret |-> notFound]
        ELSE [wrote |-> wok,
              content |-> [tasks EXCEPT ![taskIndex] = mergeTask(@, data, now)],
              ret |-> IF wok
                      THEN [success |-> TRUE]
                      ELSE [success |-> FALSE, message |-> "Erro ao atualizar tarefa"]]

\* Database.deleteTask(taskId, userId)
deleteTask(taskId, userId, wok) ==
    LET tasks == getTasks(null)
        taskIndex == findTask(tasks, taskId, userId)
    IN  IF taskIndex = 0
        THEN [wrote |-> FALSE, content |-> tasks, ret |-> notFound]
        ELSE [wrote |-> wok, content |-> splice(tasks, taskIndex),
              ret |-> IF wok
                      THEN [success |-> TRUE]
                      ELSE [success |-> FALSE, message |-> "Erro ao excluir tarefa"]]

\* faulty variant of toggleTaskCompletion: returns the value it read, not
\* the value it wrote
toggleTaskCompletionStale(taskId, userId, wok) ==
    LET tasks == getTasks(null)
        taskIndex == findTask(tasks, taskId, userId)
    IN  IF taskIndex = 0
        THEN [wrote |-> FALSE, content |-> tasks, ret |-> notFound]
        ELSE [wrote |-> wok,
              content |-> [tasks EXCEPT ![taskIndex].completed = ~@,
                                        ![taskIndex].updatedAt = now],
              before |-> tasks[taskIndex].completed,
              ret |-> IF wok
                      THEN [success |-> TRUE,
                            completed |-> tasks[taskIndex].completed]
                      ELSE [success |-> FALSE, message |-> "Erro ao atualizar tarefa"]]

\* Database.toggleTaskCompletion(taskId, userId).  `before` is the completed
\* value the call read; the value returned is the one it wrote.  (The
\* action records in `last.again` whether the call before it was the same
\* successful toggle.)
toggleTaskCompletion(taskId, userId, wok) ==
    LET tasks == getTasks(null)
        taskIndex == findTask(tasks, taskId, userId)
        toggled == [tasks EXCEPT ![taskIndex].completed = ~@,
                                 ![taskIndex].updatedAt = now]
    IN  IF taskIndex = 0
        THEN [wrote |-> FALSE, content |-> tasks, ret |-> notFound]
        ELSE [wrote |-> wok, content |-> toggled,
              before |-> tasks[taskIndex].completed,
              ret |-> IF wok
                      THEN [success |-> TRUE,
                            completed |-> toggled[taskIndex].completed]
                      ELSE [success |-> FALSE, message |-> "Erro ao atualizar tarefa"]]

\* faulty variant of countPending: completed tasks are counted too
countByPriorityAll(tasks, priority) ==
    LET test(task) == "priority" \in DOMAIN task /\ task.priority = priority
    IN  Len(SelectSeq(tasks, test))

\* number of elements of a task list that are not completed and have the
\* given priority: tasks.filter(task => !task.completed && ...).length
countPending(tasks, priority) ==
    LET test(task) == /\ ~task.completed
                      /\ "priority" \in DOMAIN task
                      /\ task.priority = priority
    IN  Len(SelectSeq(tasks, test))

\* Database.getTaskStats(userId): the value returned
getTaskStats(userId) ==
    LET tasks == getTasks(userId)
        total == Len(tasks)
        isCompleted(task) == task.completed
        completed == Len(SelectSeq(tasks, isCompleted))
        pending == total - completed
        byPriority == [high |-> countPending(tasks, high),
                       medium |-> countPending(tasks, medium),
                       low |-> countPending(tasks, low)]
    IN  [total |-> total, completed |-> completed, pending |-> pending,
         byPriority |-> byPriority]

(***************************************************************************)
(* Routes of src/server.js.                                                *)
(***************************************************************************)
\* faulty variant of isLoggedIn: every request counts as logged in
isLoggedInAlways(sessionUserId) == TRUE

\* isLoggedIn(req): req.session && req.session.userId, with `sessionUserId`
\* the userId of the request's session (null when the session has none)
isLoggedIn(sessionUserId) == truthyId(sessionUserId)

\* the response of requireAuth to a request under /api/ with no login
unauthorized == [status |-> 401, success |-> FALSE, message |-> "Nao autorizado"]

\* POST /api/tasks behind requireAuth: the outcome for the task file and the
\* JSON response
postApiTasks(sessionUserId, title, description, priority, id, wok) ==
    IF ~isLoggedIn(sessionUserId)
    THEN [wrote |-> FALSE, content |-> <<>>, called |-> FALSE,
          userId |-> null, ret |-> unauthorized]
    ELSE IF ~truthy(title)
    THEN [wrote |-> FALSE, content |-> <<>>, called |-> FALSE,
          userId |-> null,
          ret |-> [status |-> 200, success |-> FALSE,
                   message |-> "O titulo da tarefa e obrigatorio."]]
    ELSE LET result == createTask(sessionUserId,
                                  sanitizeInput(title),
                                  sanitizeInput(orElse(description, <<>>)),
                                  sanitizeInput(orElse(priority, medium)),
                                  id, wok)
         IN  [wrote |-> result.wrote, content |-> result.content, called |-> TRUE,
              userId |-> sessionUserId,
              ret |-> IF result.ret.success
                      THEN [status |-> 200, success |-> TRUE,
                            message |-> "Tarefa criada com sucesso!"]
                      ELSE [status |-> 200, success |-> FALSE,
                            message |-> result.ret.message]]

\* PUT /api/tasks/:id behind requireAuth: the outcome for the task file and
\* the JSON response.  The patch always has the three keys; a key whose
\* field the body lacks has the value undefined (description: '').
putApiTasks(sessionUserId, taskId, title, description, priority, wok) ==
    IF ~isLoggedIn(sessionUserId)
    THEN [wrote |-> FALSE, content |-> <<>>, called |-> FALSE,
          userId |-> null, ret |-> unauthorized]
    ELSE LET data == [title |-> sanitizeInput(title),
                      description |-> sanitizeInput(orElse(description, <<>>)),
                      priority |-> sanitizeInput(priority)]
             result == updateTask(taskId, sessionUserId, data, wok)
         IN  [wrote |-> result.wrote, content |-> result.content, called |-> TRUE,
              userId |-> sessionUserId,
              ret |-> IF result.ret.success
                      THEN [status |-> 200, success |-> TRUE,
                            message |-> "Tarefa atualizada com sucesso!"]
                      ELSE [status |-> 200, success |-> FALSE,
                            message |-> result.ret.message]]

\* the outcome of requireAuth that lets the handler run: next()
next == [next |-> TRUE]

\* res.redirect('/auth')
redirectAuth == [status |-> 302, redirect |-> "/auth"]

\* requireAuth(req, res, next).  `wantsJson` is req.xhr or an Accept header
\* that names json, `api` is req.path.startsWith('/api/').
requireAuth(sessionUserId, wantsJson, api) ==
    IF isLoggedIn(sessionUserId)
    THEN next
    ELSE IF wantsJson \/ api THEN unauthorized ELSE redirectAuth

\* the global middleware, run before every route: res.locals.user and
\* whether Database.getUserById was called, and with which id
globalMiddleware(sessionUserId) ==
    IF isLoggedIn(sessionUserId)
    THEN [called |-> TRUE, userId |-> sessionUserId,
          user |-> getUserById(sessionUserId)]
    ELSE [called |-> FALSE, userId |-> null, user |-> nullUser]

\* POST /auth/login: the userId of the session afterwards and the JSON
\* response.  A missing field is the empty string.  The identifiers of
\* Usernames and Emails have no surrounding blanks and no angle brackets, so
\* sanitizeInput hands them to authenticateUser as they are.  The session
\* store is the MemoryStore, whose save reports no error.
postAuthLogin(sessionUserId, username, password) ==
    IF username = "" \/ password = ""
    THEN [userId |-> sessionUserId, called |-> FALSE,
          ret |-> [success |-> FALSE,
                   message |-> "Por favor, preencha todos os campos."]]
    ELSE LET result == authenticateUser(username, password)
         IN  IF result.success
             THEN [userId |-> result.user.id, called |-> TRUE,
                   ret |-> [success |-> TRUE, redirect |-> "/dashboard"]]
             ELSE [userId |-> sessionUserId, called |-> TRUE,
                   ret |-> [success |-> FALSE, message |-> result.message]]

\* POST /logout: req.session.destroy leaves the session without a userId
postLogout(sessionUserId) ==
    [userId |-> null, ret |-> redirectAuth]

\* GET /dashboard behind requireAuth: the handler sends the page and calls
\* no store operation
getDashboard(sessionUserId, wantsJson) ==
    LET auth == requireAuth(sessionUserId, wantsJson, FALSE)
    IN  IF auth # next
        THEN [called |-> FALSE, userId |-> null, ret |-> auth]
        ELSE [called |-> FALSE, userId |-> null,
              ret |-> [status |-> 200, file |-> "dashboard.html"]]

\* the values of the query parameter `filter` that are no priority
filterAll == <<"a", "l", "l">>
filterPending == <<"p", "e", "n", "d", "i", "n", "g">>
filterCompleted == <<"c", "o", "m", "p", "l", "e", "t", "e", "d">>

\* faulty variant of filterTasks: a priority filter keeps completed tasks
filterTasksByPriorityOnly(tasks, filter) ==
    LET isPending(task) == ~task.completed
        isCompleted(task) == task.completed
        hasPriority(task) == "priority" \in DOMAIN task /\ task.priority = filter
    IN  IF filter = filterPending THEN SelectSeq(tasks, isPending)
        ELSE IF filter = filterCompleted THEN SelectSeq(tasks, isCompleted)
        ELSE IF filter \in {high, medium, low} THEN SelectSeq(tasks, hasPriority)
        ELSE tasks

\* the switch on `filter` of GET /api/dashboard-data
filterTasks(tasks, filter) ==
    LET isPending(task) == ~task.completed
        isCompleted(task) == task.completed
        hasPriority(task) == /\ "priority" \in DOMAIN task
                             /\ task.priority = filter
                             /\ ~task.completed
    IN  IF filter = filterPending THEN SelectSeq(tasks, isPending)
        ELSE IF filter = filterCompleted THEN SelectSeq(tasks, isCompleted)
        ELSE IF filter \in {high, medium, low} THEN SelectSeq(tasks, hasPriority)
        ELSE tasks

\* a task put into a list that is sorted by createdAt, latest first, behind
\* the tasks that are as late as it
insertByCreatedAt(sorted, task) ==
    LET before == {i \in 1..Len(sorted) : sorted[i].createdAt >= task.createdAt}
        k == Cardinality(before)
    IN  SubSeq(sorted, 1, k) \o <<task>> \o SubSeq(sorted, k + 1, Len(sorted))

\* tasks.sort((a, b) => new Date(b.createdAt) - new Date(a.createdAt)): a
\* stable sort by createdAt, latest first
RECURSIVE sortByCreatedAt(_)
sortByCreatedAt(tasks) ==
    IF tasks = <<>>
    THEN <<>>
    ELSE insertByCreatedAt(sortByCreatedAt(SubSeq(tasks, 1, Len(tasks) - 1)),
                           tasks[Len(tasks)])

\* GET /api/dashboard-data behind requireAuth: the JSON response.  A request
\* without the query parameter has the filter undefined.  The list is sorted
\* in place, so `allTasks` is sorted too when the filter selects nothing.
getApiDashboardData(sessionUserId, filterQuery) ==
    LET auth == requireAuth(sessionUserId, FALSE, TRUE)
    IN  IF auth # next
        THEN [called |-> FALSE, userId |-> null, ret |-> auth]
        ELSE LET userId == sessionUserId
                 user == getUserById(userId)
                 tasks == getTasks(userId)
                 stats == getTaskStats(userId)
                 filter == orElse(filterQuery, filterAll)
                 filteredTasks == sortByCreatedAt(filterTasks(tasks, filter))
                 selects == filter \in {filterPending, filterCompleted,
                                        high, medium, low}
             IN  [called |-> TRUE, userId |-> userId,
                  ret |-> [status |-> 200, user |-> user,
                           tasks |-> filteredTasks,
                           allTasks |-> IF selects THEN tasks ELSE filteredTasks,
                           stats |-> stats, filter |-> filter]]

\* DELETE /api/tasks/:id behind requireAuth: the outcome for the task file
\* and the JSON response
deleteApiTasks(sessionUserId, taskId, wok) ==
    LET auth == requireAuth(sessionUserId, FALSE, TRUE)
    IN  IF auth # next
        THEN [wrote |-> FALSE, content |-> <<>>, called |-> FALSE,
              userId |-> null, ret |-> auth]
        ELSE LET userId == sessionUserId
                 result == deleteTask(taskId, userId, wok)
             IN  [wrote |-> result.wrote, content |-> result.content,
                  called |-> TRUE, userId |-> userId,
                  ret |-> IF result.ret.success
                          THEN [status |-> 200, success |-> TRUE,
                                message |-> "Tarefa excluida com sucesso!"]
                          ELSE [status |-> 200, success |-> FALSE,
                                message |-> result.ret.message]]

\* PATCH /api/tasks/:id/toggle behind requireAuth: the outcome for the task
\* file and the JSON response
patchApiTasksToggle(sessionUserId, taskId, wok) ==
    LET auth == requireAuth(sessionUserId, FALSE, TRUE)
    IN  IF auth # next
        THEN [wrote |-> FALSE, content |-> <<>>, called |-> FALSE,
              userId |-> null, ret |-> auth]
        ELSE LET userId == sessionUserId
                 result == toggleTaskCompletion(taskId, userId, wok)
             IN  [wrote |-> result.wrote, content |-> result.content,
                  called |-> TRUE, userId |-> userId,
                  ret |-> IF result.ret.success
                          THEN [status |-> 200, success |-> TRUE,
                                message |-> IF result.ret.completed
                                            THEN "Tarefa marcada como concluida!"
                                            ELSE "Tarefa marcada como pendente!",
                                completed |-> result.ret.completed]
                          ELSE [status |-> 200, success |-> FALSE,
                                message |-> result.ret.message]]

(***************************************************************************)
(* Inputs.                                                                 *)
(***************************************************************************)
\* Identifiers a caller registers or logs in with.  "a@b.c" passes
\* validateEmail and is a non-empty string, so the register route accepts it
\* as a username and as an email.
Usernames == {"ana", "a@b.c"}
Emails == {"a@b.c", "b@b.c"}
Passwords == {"pw1", "pw2"}

\* owners of tasks: the ids of two users
Owners == {1, 2}
Titles == {<<"m", "i", "l", "k">>}
Descriptions == {<<>>}
\* "urgent" is none of low, medium, high: the store keeps whatever priority
\* string it is given
urgent == <<"u", "r", "g", "e", "n", "t">>
Priorities == {high, urgent}
\* update patches: a partial patch, which names one content field of a task
Patches == {[priority |-> high]}

\* a date later than every reading of the clock
future == MaxClock + 1
tea == <<"t", "e", "a">>
\* patches a caller of the store may pass: a content field, the fields the
\* store sets at creation, and the timestamp the store sets at every update
StorePatches ==
    {[title |-> tea], [userId |-> 2, createdAt |-> future], [updatedAt |-> future]}

\* raw strings of a request body: whitespace, an angle bracket and a letter
RawChars == {" ", "<", "a"}
RawStrings == UNION {[1..n -> RawChars] : n \in 0..MaxLen}

(***************************************************************************)
(* Actions: one per store operation, called with arguments of the given    *)
(* sets.                                                                   *)
(***************************************************************************)
\* generateId() is reached only when no existing user matches
CreateUserWith(usernames, emails, passwords) ==
    \E username \in usernames, email \in emails, password \in passwords,
       wok \in BOOLEAN :
        \E id \in IF existingUser(getUsers, username, email) # 0
                  THEN {null}
                  ELSE generateId(idsOf(getUsers)) :
            LET out == createUser(username, email, password, id, wok)
            IN  /\ saveUsers(out)
                /\ last' = [op |-> "createUser",
                            args |-> [username |-> username, email |-> email,
                                      password |-> password],
                            wrote |-> out.wrote, ret |-> out.ret]
                /\ UNCHANGED <<tasksFile, tasksFileOk, now, aside>>

CreateUser == CreateUserWith(Usernames, Emails, Passwords)

AuthenticateUser ==
    \E username \in Usernames \cup Emails, password \in Passwords :
        /\ last' = [op |-> "authenticateUser",
                    args |-> [username |-> username, password |-> password],
                    wrote |-> FALSE, ret |-> authenticateUser(username, password)]
        /\ UNCHANGED <<usersFile, usersFileOk, tasksFile, tasksFileOk, now, aside>>

GetUserById ==
    \E userId \in IdPool :
        /\ last' = [op |-> "getUserById", args |-> [userId |-> userId],
                    wrote |-> FALSE, ret |-> getUserById(userId)]
        /\ UNCHANGED <<usersFile, usersFileOk, tasksFile, tasksFileOk, now, aside>>

CreateTaskWith(owners, priorities) ==
    \E userId \in owners, title \in Titles, description \in Descriptions,
       priority \in priorities, wok \in BOOLEAN :
        \E id \in generateId(idsOf(getTasks(null))) :
            LET out == createTask(userId, title, description, priority, id, wok)
            IN  /\ saveTasks(out)
                /\ last' = [op |-> "createTask",
                            args |-> [userId |-> userId, title |-> title,
                                      description |-> description,
                                      priority |-> priority],
                            wrote |-> out.wrote, ret |-> out.ret]
                /\ UNCHANGED <<usersFile, usersFileOk, now, aside>>

CreateTask == CreateTaskWith(Owners, Priorities)

UpdateTaskWith(owners, patches) ==
    \E taskId \in IdPool, userId \in owners, data \in patches, wok \in BOOLEAN :
        LET out == updateTask(taskId, userId, data, wok)
        IN  /\ saveTasks(out)
            /\ last' = [op |-> "updateTask",
                        args |-> [taskId |-> taskId, userId |-> userId,
                                  data |-> data],
                        wrote |-> out.wrote, ret |-> out.ret]
            /\ UNCHANGED <<usersFile, usersFileOk, now, aside>>

UpdateTask == UpdateTaskWith(Owners, Patches)

DeleteTaskWith(owners) ==
    \E taskId \in IdPool, userId \in owners, wok \in BOOLEAN :
        LET out == deleteTask(taskId, userId, wok)
        IN  /\ saveTasks(out)
            /\ last' = [op |-> "deleteTask",
                        args |-> [taskId |-> taskId, userId |-> userId],
                        wrote |-> out.wrote, ret |-> out.ret]
            /\ UNCHANGED <<usersFile, usersFileOk, now, aside>>

DeleteTask == DeleteTaskWith(Owners)

ToggleTaskCompletionWith(owners) ==
    \E taskId \in IdPool, userId \in owners, wok \in BOOLEAN :
        LET out == toggleTaskCompletion(taskId, userId, wok)
        IN  /\ saveTasks(out)
            /\ last' = [op |-> "toggleTaskCompletion",
                        args |-> [taskId |-> taskId, userId |-> userId],
                        wrote |-> out.wrote, ret |-> out.ret,
                        before |-> IF out.ret = notFound THEN FALSE ELSE out.before,
                        again |-> /\ out.ret.success
                                  /\ last.op = "toggleTaskCompletion"
                                  /\ last.ret.success
                                  /\ last.args = [taskId |-> taskId,
                                                  userId |-> userId]]
            /\ UNCHANGED <<usersFile, usersFileOk, now, aside>>

ToggleTaskCompletion == ToggleTaskCompletionWith(Owners)

GetTasksWith(userIds) ==
    \E userId \in userIds :
        /\ last' = [op |-> "getTasks", args |-> [userId |-> userId],
                    wrote |-> FALSE, ret |-> getTasks(userId)]
        /\ UNCHANGED <<usersFile, usersFileOk, tasksFile, tasksFileOk, now, aside>>

GetTasks == GetTasksWith(Owners)

GetTaskStatsWith(userIds) ==
    \E userId \in userIds :
        /\ last' = [op |-> "getTaskStats", args |-> [userId |-> userId],
                    wrote |-> FALSE, ret |-> getTaskStats(userId)]
        /\ UNCHANGED <<usersFile, usersFileOk, tasksFile, tasksFileOk, now, aside>>

GetTaskStats == GetTaskStatsWith(Owners)

\* a request POST /api/tasks; generateId() is reached only past both checks
PostApiTasksWith(titles, priorities) ==
    \E sessionUserId \in Owners \cup {null}, title \in titles,
       description \in {undefined}, priority \in priorities,
       wok \in BOOLEAN :
        \E id \in IF isLoggedIn(sessionUserId) /\ truthy(title)
                  THEN generateId(idsOf(getTasks(null)))
                  ELSE {null} :
            LET out == postApiTasks(sessionUserId, title, description, priority,
                                    id, wok)
            IN  /\ saveTasks(out)
                /\ last' = [op |-> "POST /api/tasks",
                            args |-> [sessionUserId |-> sessionUserId,
                                      title |-> title, description |-> description,
                                      priority |-> priority],
                            wrote |-> out.wrote, called |-> out.called,
                            ret |-> out.ret]
                /\ UNCHANGED <<usersFile, usersFileOk, now, aside>>

PostApiTasks == PostApiTasksWith(RawStrings \cup {undefined}, {undefined})

\* a request PUT /api/tasks/:id, with a body whose title and priority are of
\* the given sets
PutApiTasksWith(titles, priorities) ==
    \E sessionUserId \in Owners \cup {null}, taskId \in IdPool,
       title \in titles, description \in {undefined},
       priority \in priorities, wok \in BOOLEAN :
        LET out == putApiTasks(sessionUserId, taskId, title, description,
                               priority, wok)
        IN  /\ saveTasks(out)
            /\ last' = [op |-> "PUT /api/tasks/:id",
                        args |-> [sessionUserId |-> sessionUserId,
                                  taskId |-> taskId, title |-> title,
                                  description |-> description,
                                  priority |-> priority],
                        wrote |-> out.wrote, called |-> out.called,
                        ret |-> out.ret]
            /\ UNCHANGED <<usersFile, usersFileOk, now, aside>>

\* the clock advances between calls
Tick ==
    /\ now < MaxClock
    /\ now' = now + 1
    /\ UNCHANGED <<usersFile, usersFileOk, tasksFile, tasksFileOk, last, aside>>

\* users.json becomes unreadable: readFileSync or JSON.parse throws.  The
\* records are still there (access denied, too many open files) or are lost
\* (file removed, content garbled).
UsersFileFault ==
    /\ usersFileOk
    /\ usersFileOk' = FALSE
    /\ \E lost \in BOOLEAN : usersFile' = IF lost THEN <<>> ELSE usersFile
    /\ UNCHANGED <<tasksFile, tasksFileOk, now, last, aside>>

\* users.json can be read again, with the records it still holds
UsersFileRecovers ==
    /\ ~usersFileOk
    /\ usersFileOk' = TRUE
    /\ UNCHANGED <<usersFile, tasksFile, tasksFileOk, now, last, aside>>

\* tasks.json becomes unreadable
TasksFileFault ==
    /\ tasksFileOk
    /\ tasksFileOk' = FALSE
    /\ \E lost \in BOOLEAN : tasksFile' = IF lost THEN <<>> ELSE tasksFile
    /\ UNCHANGED <<usersFile, usersFileOk, now, last, aside>>

\* tasks.json can be read again, with the records it still holds
TasksFileRecovers ==
    /\ ~tasksFileOk
    /\ tasksFileOk' = TRUE
    /\ UNCHANGED <<usersFile, usersFileOk, tasksFile, now, last, aside>>

\* A file gets a content that JSON.parse accepts and that is truthy and no
\* array (an object, a number, a string): getUsers and getTasks() return the
\* parsed value as it is.  The records are gone.
UsersFileNotArray ==
    /\ "users" \notin notArray
    /\ notArray' = notArray \cup {"users"}
    /\ usersFile' = <<>>
    /\ usersFileOk' = TRUE
    /\ UNCHANGED <<tasksFile, tasksFileOk, now, last, inFlight, acknowledged,
                   session, loggedIn>>

TasksFileNotArray ==
    /\ "tasks" \notin notArray
    /\ notArray' = notArray \cup {"tasks"}
    /\ tasksFile' = <<>>
    /\ tasksFileOk' = TRUE
    /\ UNCHANGED <<usersFile, usersFileOk, now, last, inFlight, acknowledged,
                   session, loggedIn>>

\* what the caller of a store operation gets when the operation throws
thrown == [threw |-> "TypeError"]

\* a store operation throws before it writes: users.find, tasks.push and
\* tasks.findIndex are not functions of a value that is no array, and no
\* store operation has a try block around them
Throws(op, args) ==
    /\ last' = [op |-> op, args |-> args, wrote |-> FALSE, ret |-> thrown]
    /\ UNCHANGED <<usersFile, usersFileOk, tasksFile, tasksFileOk, now,
                   inFlight, acknowledged, notArray,
                   session, loggedIn>>

CreateUserAnyFile ==
    IF "users" \in notArray
    THEN \E email \in Emails :
            Throws("createUser",
                   [username |-> "ana", email |-> email, password |-> "pw1"])
    ELSE CreateUserWith({"ana"}, Emails, {"pw1"})

AuthenticateUserAnyFile ==
    IF "users" \in notArray
    THEN \E username \in Usernames \cup Emails, password \in Passwords :
            Throws("authenticateUser",
                   [username |-> username, password |-> password])
    ELSE AuthenticateUser

CreateTaskAnyFile ==
    IF "tasks" \in notArray
    THEN \E title \in Titles, description \in Descriptions :
            Throws("createTask",
                   [userId |-> 1, title |-> title, description |-> description,
                    priority |-> medium])
    ELSE CreateTaskWith({1}, {medium})

UpdateTaskAnyFile ==
    IF "tasks" \in notArray
    THEN \E taskId \in IdPool, data \in Patches :
            Throws("updateTask", [taskId |-> taskId, userId |-> 1, data |-> data])
    ELSE UpdateTaskWith({1}, Patches)

(***************************************************************************)
(* Store operations in steps.  An operation reads the whole file into an    *)
(* array and mutates the array (Begin), then writes the whole array back    *)
(* and returns (Finish).  Between the two steps the operation is in flight. *)
(***************************************************************************)
\* the requests (in one Node process) or the processes that call the store
Procs == {"p", "q"}

\* the clients (session cookies) that send requests
Clients == {"c1", "c2"}

\* a request that is inside no store operation
idle == [pc |-> "idle"]

\* ids held by the operations in flight
idsInFlight ==
    {inFlight[p].newTask.id : p \in {q \in Procs : inFlight[q].pc = "createTask"}}

\* One Node process: readFileSync and writeFileSync are synchronous and the
\* store operations await nothing, so the event loop starts a handler's
\* store operation only when no other is in flight.
runsToCompletion(p) == \A q \in Procs \ {p} : inFlight[q] = idle

\* variant of held for a store that reads the file again when it writes
heldReread(p) ==
    LET tasks == getTasks(null)
    IN  IF inFlight[p].pc = "createTask"
        THEN Append(tasks, inFlight[p].newTask)
        ELSE LET taskIndex == findTask(tasks, inFlight[p].taskId, inFlight[p].userId)
             IN  IF taskIndex = 0 THEN tasks ELSE splice(tasks, taskIndex)

\* the array an operation in flight holds: what it read, mutated in memory
\* (tasks.push(newTask), tasks.splice(taskIndex, 1))
held(p) == inFlight[p].tasks

\* createTask up to tasks.push(newTask)
BeginCreateTask(p) ==
    /\ inFlight[p] = idle
    /\ \E title \in Titles, description \in Descriptions :
       \E id \in generateId(idsOf(getTasks(null)) \cup idsInFlight
                                \cup acknowledged) :
          LET tasks == getTasks(null)
              newTask == [id |-> id, userId |-> 1, title |-> title,
                          description |-> description, priority |-> medium,
                          completed |-> FALSE, createdAt |-> now,
                          updatedAt |-> now]
          IN  inFlight' = [inFlight EXCEPT ![p] =
                              [pc |-> "createTask", newTask |-> newTask,
                               tasks |-> Append(tasks, newTask)]]
    /\ UNCHANGED <<usersFile, usersFileOk, tasksFile, tasksFileOk, now, last,
                   acknowledged, notArray,
                   session, loggedIn>>

\* createTask from saveTasks(tasks) to its return
FinishCreateTask(p) ==
    /\ inFlight[p].pc = "createTask"
    /\ \E wok \in BOOLEAN :
          LET newTask == inFlight[p].newTask
              out == [wrote |-> wok, content |-> held(p),
                      ret |-> IF wok
                              THEN [success |-> TRUE, taskId |-> newTask.id]
                              ELSE [success |-> FALSE,
                                    message |-> "Erro ao criar tarefa"]]
          IN  /\ saveTasks(out)
              /\ last' = [op |-> "createTask",
                          args |-> [userId |-> newTask.userId,
                                    title |-> newTask.title,
                                    description |-> newTask.description,
                                    priority |-> newTask.priority],
                          wrote |-> out.wrote, ret |-> out.ret]
              /\ acknowledged' = IF out.ret.success
                                 THEN acknowledged \cup {newTask.id}
                                 ELSE acknowledged
    /\ inFlight' = [inFlight EXCEPT ![p] = idle]
    /\ UNCHANGED <<usersFile, usersFileOk, now, notArray,
                   session, loggedIn>>

\* deleteTask up to tasks.splice(taskIndex, 1); when findIndex returns -1 the
\* operation returns in this step, having written nothing
BeginDeleteTask(p) ==
    /\ inFlight[p] = idle
    /\ \E taskId \in IdPool :
          LET tasks == getTasks(null)
              taskIndex == findTask(tasks, taskId, 1)
          IN  IF taskIndex = 0
              THEN /\ last' = [op |-> "deleteTask",
                               args |-> [taskId |-> taskId, userId |-> 1],
                               wrote |-> FALSE, ret |-> notFound]
                   /\ UNCHANGED inFlight
              ELSE /\ inFlight' = [inFlight EXCEPT ![p] =
                                      [pc |-> "deleteTask", taskId |-> taskId,
                                       userId |-> 1,
                                       tasks |-> splice(tasks, taskIndex)]]
                   /\ UNCHANGED last
    /\ UNCHANGED <<usersFile, usersFileOk, tasksFile, tasksFileOk, now,
                   acknowledged, notArray,
                   session, loggedIn>>

\* deleteTask from saveTasks(tasks) to its return
FinishDeleteTask(p) ==
    /\ inFlight[p].pc = "deleteTask"
    /\ \E wok \in BOOLEAN :
          LET out == [wrote |-> wok, content |-> held(p),
                      ret |-> IF wok
                              THEN [success |-> TRUE]
                              ELSE [success |-> FALSE,
                                    message |-> "Erro ao excluir tarefa"]]
          IN  /\ saveTasks(out)
              /\ last' = [op |-> "deleteTask",
                          args |-> [taskId |-> inFlight[p].taskId,
                                    userId |-> inFlight[p].userId],
                          wrote |-> out.wrote, ret |-> out.ret]
              /\ acknowledged' = IF out.ret.success
                                 THEN acknowledged \ {inFlight[p].taskId}
                                 ELSE acknowledged
    /\ inFlight' = [inFlight EXCEPT ![p] = idle]
    /\ UNCHANGED <<usersFile, usersFileOk, now, notArray,
                   session, loggedIn>>

(***************************************************************************)
(* Specifications.                                                         *)
(***************************************************************************)
\* Database.init(): both files exist and hold []
Init ==
    /\ usersFile = <<>>
    /\ usersFileOk = TRUE
    /\ tasksFile = <<>>
    /\ tasksFileOk = TRUE
    /\ now = 0
    /\ last = [op |-> "init", args |-> <<>>, wrote |-> TRUE, ret |-> [success |-> TRUE]]
    /\ inFlight = [p \in Procs |-> idle]
    /\ acknowledged = {}
    /\ notArray = {}
    /\ session = [c \in Clients |-> null]
    /\ loggedIn = [c \in Clients |-> null]

\* the user store
NextUsers == CreateUser \/ AuthenticateUser \/ GetUserById \/ Tick

SpecUsers == Init /\ [][NextUsers]_vars

\* the task store
NextTasks ==
    \/ CreateTask \/ UpdateTask \/ DeleteTask \/ ToggleTaskCompletion
    \/ GetTasks \/ GetTaskStats

SpecTasks == Init /\ [][NextTasks]_vars

\* the five mutating operations of both stores, for one user name and one
\* task owner
NextStore ==
    \/ CreateUserWith({"ana"}, Emails, {"pw1"})
    \/ CreateTaskWith({1}, {medium})
    \/ UpdateTaskWith({1}, Patches)
    \/ DeleteTaskWith({1})
    \/ ToggleTaskCompletionWith({1})

SpecStore == Init /\ [][NextStore]_vars

\* the task store called directly, with patches over every kind of field
NextUpdate ==
    \/ CreateTaskWith({1}, {medium})
    \/ UpdateTaskWith({1}, StorePatches)
    \/ ToggleTaskCompletionWith({1})

SpecUpdate == Init /\ [][NextUpdate]_vars

\* requests to one Node process: a handler's store operation runs to
\* completion before another starts
NextSingle ==
    \E p \in Procs :
        \/ runsToCompletion(p) /\ BeginCreateTask(p)
        \/ FinishCreateTask(p)
        \/ runsToCompletion(p) /\ BeginDeleteTask(p)
        \/ FinishDeleteTask(p)

SpecSingle == Init /\ [][NextSingle]_vars

\* several processes over the same files, with no lock: the steps of their
\* store operations interleave freely
NextMulti ==
    \E p \in Procs :
        \/ BeginCreateTask(p)
        \/ FinishCreateTask(p)
        \/ BeginDeleteTask(p)
        \/ FinishDeleteTask(p)

SpecMulti == Init /\ [][NextMulti]_vars

\* both stores, for one user and one task owner, over files that may become
\* unreadable and readable again
NextFaults ==
    \/ CreateUserWith({"ana"}, {"a@b.c"}, {"pw1"})
    \/ AuthenticateUser
    \/ GetUserById
    \/ CreateTaskWith({1}, {medium})
    \/ UpdateTaskWith({1}, {[priority |-> medium]})
    \/ DeleteTaskWith({1})
    \/ ToggleTaskCompletionWith({1})
    \/ GetTasks
    \/ UsersFileFault
    \/ UsersFileRecovers
    \/ TasksFileFault
    \/ TasksFileRecovers

SpecFaults == Init /\ [][NextFaults]_vars

\* the user store over a file that may become unreadable and readable again
NextUserFaults ==
    \/ CreateUser
    \/ GetUserById
    \/ UsersFileFault
    \/ UsersFileRecovers

SpecUserFaults == Init /\ [][NextUserFaults]_vars

\* store operations over files that may hold a JSON value that is no array
NextShapes ==
    \/ CreateUserAnyFile
    \/ AuthenticateUserAnyFile
    \/ CreateTaskAnyFile
    \/ UpdateTaskAnyFile
    \/ UsersFileNotArray
    \/ TasksFileNotArray

SpecShapes == Init /\ [][NextShapes]_vars

\* the task-creation and task-update routes over the task store
NextTaskRoutes ==
    \/ PostApiTasksWith({undefined, <<"<">>, tea}, {undefined})
    \/ PutApiTasksWith({undefined, <<" ">>, tea}, {high})

SpecTaskRoutes == Init /\ [][NextTaskRoutes]_vars

\* the two routes with bodies that name a priority or none
NextPriorityRoutes ==
    \/ PostApiTasksWith({tea}, {undefined, urgent})
    \/ PutApiTasksWith({tea}, {undefined, high})

SpecPriorityRoutes == Init /\ [][NextPriorityRoutes]_vars

\* tasks of two owners created, completed and deleted
NextDelete ==
    \/ CreateTaskWith(Owners, {medium})
    \/ ToggleTaskCompletionWith(Owners)
    \/ DeleteTaskWith(Owners)

SpecDelete == Init /\ [][NextDelete]_vars

\* the task store read with any userId, the default null included
NextScope ==
    \/ CreateTaskWith(Owners, {medium})
    \/ ToggleTaskCompletionWith(Owners)
    \/ GetTasksWith(Owners \cup {null})
    \/ GetTaskStatsWith(Owners \cup {null})

SpecScope == Init /\ [][NextScope]_vars

\* the task-creation route over the task store
NextRoutes == PostApiTasks

SpecRoutes == Init /\ [][NextRoutes]_vars

(***************************************************************************)
(* Properties.                                                             *)
(***************************************************************************)
\* a call returned in this step: `last` changed (two calls of one operation
\* return values of one shape, so the records are compared only then)
Called == last'.op # last.op \/ last' # last

\* no two records of a user collection share a username or an email
UniqueUsers(users) ==
    \A i, j \in 1..Len(users) :
        i # j => /\ users[i].username # users[j].username
                 /\ users[i].email # users[j].email

\* some record of the collection has the username or has the email
Collides(users, username, email) ==
    \E i \in 1..Len(users) :
        users[i].username = username \/ users[i].email = email

\* C1: after every step no two stored users share a username or an email,
\* and a createUser call whose username or email equals that of a stored
\* record returns success=false and leaves the user collection as it was.
C1_Uniqueness ==
    [][/\ UniqueUsers(usersFile')
       /\ (/\ Called
           /\ last'.op = "createUser"
           /\ Collides(usersFile, last'.args.username, last'.args.email))
          => (last'.ret.success = FALSE /\ usersFile' = usersFile)]_vars

\* a createUser call was refused as a duplicate while two users are stored
C1_Witness ==
    /\ last.op = "createUser"
    /\ last.ret = [success |-> FALSE, message |-> "Usuario ou email ja existe"]
    /\ Len(usersFile) = 2

\* C2: updateTask, deleteTask and toggleTaskCompletion called with the id of
\* a stored task and a user id other than its owner's return not-found and
\* leave the whole task collection unchanged.
C2_OwnershipIsolation ==
    [][(/\ Called
        /\ last'.op \in {"updateTask", "deleteTask", "toggleTaskCompletion"}
        /\ \E i \in 1..Len(tasksFile) :
              /\ tasksFile[i].id = last'.args.taskId
              /\ tasksFile[i].userId # last'.args.userId)
       => (last'.ret = notFound /\ tasksFile' = tasksFile)]_vars

\* a user other than the owner called updateTask with the id of a stored task
C2_Witness ==
    /\ last.op = "updateTask"
    /\ last.ret = notFound
    /\ \E i \in 1..Len(tasksFile) :
          /\ tasksFile[i].id = last.args.taskId
          /\ tasksFile[i].userId # last.args.userId

MutatingOps ==
    {"createUser", "createTask", "updateTask", "deleteTask", "toggleTaskCompletion"}

\* C3: a mutating operation returns success=true only if its whole-file
\* write completed; when the write fails (or is not made) it returns
\* success=false.
C3_WriteFailureSurfaced ==
    last.op \in MutatingOps => (last.ret.success => last.wrote)

\* createTask's write failed and the call reported the failure
C3_Witness ==
    /\ last.op = "createTask"
    /\ ~last.wrote
    /\ last.ret = [success |-> FALSE, message |-> "Erro ao criar tarefa"]

\* C4 (as claimed): a POST /api/tasks whose title is a string that is empty
\* after sanitization fails and adds no record to the task collection.
C4_EmptyTitleRejected ==
    [][(/\ Called
        /\ last'.op = "POST /api/tasks"
        /\ isString(last'.args.title)
        /\ sanitizeInput(last'.args.title) = <<>>)
       => (last'.ret.success = FALSE /\ tasksFile' = tasksFile)]_vars

\* C5: after a successful createTask, getTasks(userId) has exactly one more
\* task than before, and exactly one of its tasks carries the returned
\* taskId; that task has the given userId, title, description and priority,
\* and completed=false.
C5_CreateThenList ==
    [][\A userId \in Owners :
        (/\ Called
         /\ last'.op = "createTask"
         /\ last'.ret.success
         /\ last'.args.userId = userId)
        => LET a == last'.args
               before == getTasks(userId)
               after == getTasks(userId)'
               new == {i \in 1..Len(after) : after[i].id = last'.ret.taskId}
           IN  /\ Len(after) = Len(before) + 1
               /\ Cardinality(new) = 1
               /\ \A i \in new :
                     /\ after[i].userId = userId
                     /\ after[i].title = a.title
                     /\ after[i].description = a.description
                     /\ after[i].priority = a.priority
                     /\ after[i].completed = FALSE]_vars

\* a user who had a task created a second one
C5_Witness ==
    /\ last.op = "createTask"
    /\ last.ret.success
    /\ Len(getTasks(last.args.userId)) = 2

\* the stored completed value of the task (taskId, userId) in a collection
storedCompleted(tasks, taskId, userId) ==
    tasks[findIndex({i \in 1..Len(tasks) :
                        tasks[i].id = taskId /\ tasks[i].userId = userId})].completed

\* C6: a successful toggleTaskCompletion returns the completed value that is
\* stored after it, and the second of two consecutive successful toggles of
\* a task stores the value the task had before the first.
C6_TogglePair ==
    [][(/\ Called
        /\ last'.op = "toggleTaskCompletion"
        /\ last'.ret.success)
       => LET a == last'.args
              stored == storedCompleted(tasksFile', a.taskId, a.userId)
          IN  /\ last'.ret.completed = stored
              /\ (/\ last.op = "toggleTaskCompletion"
                  /\ last.ret.success
                  /\ last.args = a)
                 => stored = last.before]_vars

\* two consecutive successful toggles of one task have been made
C6_Witness ==
    /\ last.op = "toggleTaskCompletion"
    /\ last.ret.success
    /\ last.again

\* total = completed + pending, and the priority counts sum to at most pending
StatsConsistent(s) ==
    /\ s.total = s.completed + s.pending
    /\ s.byPriority.high + s.byPriority.medium + s.byPriority.low <= s.pending

\* C7: in every reachable state, for every user id (and for null),
\* getTaskStats satisfies total = completed + pending and
\* byPriority.high + byPriority.medium + byPriority.low <= pending; so does
\* every value getTaskStats returned.
C7_StatsConsistency ==
    /\ \A userId \in Owners \cup {null} : StatsConsistent(getTaskStats(userId))
    /\ last.op = "getTaskStats" => StatsConsistent(last.ret)

\* getTaskStats returned for a user with a completed task and a pending one
\* whose priority is none of high, medium, low
C7_Witness ==
    /\ last.op = "getTaskStats"
    /\ last.ret.completed = 1
    /\ last.ret.pending = 1
    /\ last.ret.byPriority = [high |-> 0, medium |-> 0, low |-> 0]

\* number of stored tasks of the user that are not completed and have the priority
pendingOf(userId, priority) ==
    Cardinality({i \in 1..Len(tasksFile) :
                    /\ tasksFile[i].userId = userId
                    /\ tasksFile[i].priority = priority
                    /\ tasksFile[i].completed = FALSE})

\* C8: getTaskStats(userId) counts only the tasks owned by userId: total is
\* the number of that user's tasks, and byPriority[p] is the number of that
\* user's tasks with priority p and completed=false, for p in high, medium,
\* low.
C8_StatsByPriority ==
    \A userId \in Owners :
        LET s == getTaskStats(userId)
        IN  /\ s.total = Cardinality({i \in 1..Len(tasksFile) :
                                         tasksFile[i].userId = userId})
            /\ s.byPriority.high = pendingOf(userId, high)
            /\ s.byPriority.medium = pendingOf(userId, medium)
            /\ s.byPriority.low = pendingOf(userId, low)

\* getTaskStats returned for a user who has a completed high-priority task,
\* while another user has a pending task
C8_Witness ==
    /\ last.op = "getTaskStats"
    /\ last.ret.byPriority.high = 0
    /\ \E i, j \in 1..Len(tasksFile) :
          /\ tasksFile[i].userId = last.args.userId
          /\ tasksFile[i].priority = high
          /\ tasksFile[i].completed
          /\ tasksFile[j].userId # last.args.userId
          /\ ~tasksFile[j].completed

\* C9 (as claimed): after createUser(u, e, p) succeeds, authenticateUser(u, p)
\* succeeds with that user's id, authenticateUser(u, q) fails for every
\* q # p, and the stored password is the digest of p and not p.
C9_Credentials ==
    (last.op = "createUser" /\ last.ret.success)
    => LET a == last.args
           stored == usersFile[Len(usersFile)]
       IN  /\ authenticateUser(a.username, a.password).success
           /\ authenticateUser(a.username, a.password).user.id = last.ret.userId
           /\ \A q \in Passwords \ {a.password} :
                 ~authenticateUser(a.username, q).success
           /\ stored.password = sha256hex(a.password)
           /\ stored.password # a.password

\* the strings no result may carry: the stored digests and the plaintexts
Secrets == {usersFile[i].password : i \in 1..Len(usersFile)} \cup Passwords

\* a user view has exactly id, username and email, and none is a secret
Redacted(view) ==
    /\ DOMAIN view = {"id", "username", "email"}
    /\ view.username \notin Secrets
    /\ view.email \notin Secrets

\* C10: a successful authenticateUser returns success and a user view with
\* only id, username and email; getUserById returns such a view when a
\* record has the id and null when none has; no result carries a password
\* digest or a plaintext.
C10_NoCredentialLeak ==
    /\ last.op = "authenticateUser" =>
          IF last.ret.success
          THEN DOMAIN last.ret = {"success", "user"} /\ Redacted(last.ret.user)
          ELSE DOMAIN last.ret = {"success", "message"}
    /\ last.op = "getUserById" =>
          IF \E i \in 1..Len(usersFile) : usersFile[i].id = last.args.userId
          THEN Redacted(last.ret) /\ last.ret.id = last.args.userId
          ELSE last.ret = nullUser

\* authenticateUser succeeded and returned a user view
C10_Witness ==
    /\ last.op = "authenticateUser"
    /\ last.ret.success

\* a successful updateTask call returned in this step
Updated == Called /\ last'.op = "updateTask" /\ last'.ret.success

\* the position of the task the call named, in the collection it read
updatedIndex == findTask(tasksFile, last'.args.taskId, last'.args.userId)

\* the properties the patch does not name, updatedAt aside, are kept; the
\* collection keeps its length and every other task
FrameKept(i, data) ==
    /\ Len(tasksFile') = Len(tasksFile)
    /\ \A f \in DOMAIN tasksFile[i] \ (DOMAIN data \cup {"updatedAt"}) :
          f \in DOMAIN tasksFile'[i] /\ tasksFile'[i][f] = tasksFile[i][f]
    /\ \A j \in 1..Len(tasksFile) : j # i => tasksFile'[j] = tasksFile[j]

\* C11 (as claimed): after a successful updateTask(taskId, userId, patch)
\* every field of the task not present in patch, other than updatedAt, keeps
\* its value, every field present in patch has the patch's value, and every
\* other task is unchanged.
C11_UpdateFrame_Claimed ==
    [][Updated =>
         /\ FrameKept(updatedIndex, last'.args.data)
         /\ \A f \in DOMAIN last'.args.data :
               /\ f \in DOMAIN tasksFile'[updatedIndex]
               /\ tasksFile'[updatedIndex][f] = last'.args.data[f]]_vars

\* C11 (amended): after a successful updateTask(taskId, userId, patch) every
\* field of the task not present in patch, other than updatedAt, keeps its
\* value, every field present in patch other than updatedAt has the patch's
\* value, updatedAt is the time of the call whether or not the patch names
\* it, and every other task is unchanged.
C11_UpdateFrame ==
    [][Updated =>
         /\ FrameKept(updatedIndex, last'.args.data)
         /\ \A f \in DOMAIN last'.args.data \ {"updatedAt"} :
               /\ f \in DOMAIN tasksFile'[updatedIndex]
               /\ tasksFile'[updatedIndex][f] = last'.args.data[f]
         /\ tasksFile'[updatedIndex].updatedAt = now']_vars

\* an update with a patch that names only the title succeeded on the second
\* of two stored tasks, which is completed
C11_Witness ==
    /\ last.op = "updateTask"
    /\ last.ret.success
    /\ last.args.data = [title |-> tea]
    /\ Len(tasksFile) = 2
    /\ tasksFile[2].id = last.args.taskId
    /\ tasksFile[2].completed
    /\ tasksFile[2].title = tea
    /\ tasksFile[1].title # tea

\* C12 (as claimed): an updateTask or toggleTaskCompletion call, whatever its
\* patch, leaves the id, the userId and the createdAt of every stored task
\* as they were.
C12_IdentityImmutable ==
    [][(Called /\ last'.op \in {"updateTask", "toggleTaskCompletion"})
       => /\ Len(tasksFile') = Len(tasksFile)
          /\ \A i \in 1..Len(tasksFile) :
                /\ tasksFile'[i].id = tasksFile[i].id
                /\ tasksFile'[i].userId = tasksFile[i].userId
                /\ tasksFile'[i].createdAt = tasksFile[i].createdAt]_vars

\* C13 (as claimed): in one Node process at most one store operation is in
\* flight, and after every step the stored tasks are exactly those whose
\* creation returned success and whose deletion has not: no acknowledged
\* mutation is lost.
C13_NoLostUpdate ==
    /\ Cardinality({p \in Procs : inFlight[p] # idle}) <= 1
    /\ idsOf(getTasks(null)) = acknowledged
    /\ Len(getTasks(null)) = Cardinality(acknowledged)

\* the request whose store operation wrote the file and returned in this step
Wrote(p) == inFlight[p] # idle /\ inFlight'[p] = idle /\ last'.wrote

\* C14: with no lock between processes, a write replaces the file by the
\* array its writer read and mutated, so a task whose creation another
\* process had acknowledged since that read is no longer stored; there is
\* an interleaving in which both creations return success and only the last
\* writer's task is stored (C14_Witness).
C14_LastWriterWins ==
    [][\A p \in Procs :
          Wrote(p) =>
              /\ tasksFile' = stringifyTasks(inFlight[p].tasks)
              /\ \A id \in acknowledged \ idsOf(inFlight[p].tasks) :
                    id \notin idsOf(tasksFile')]_vars

\* two creations of tasks with different ids have returned success, no
\* deletion has, and the file holds only the task of the last writer
C14_Witness ==
    /\ last.op = "createTask"
    /\ last.ret.success
    /\ Cardinality(acknowledged) = 2
    /\ Len(tasksFile) = 1
    /\ tasksFile[1].id = last.ret.taskId
    /\ \A p \in Procs : inFlight[p] = idle

\* C15: while a file cannot be read its collection reads as empty, and a
\* call made then returns as for an empty collection: authenticateUser
\* fails, getUserById returns null, getTasks returns [], and updateTask,
\* deleteTask and toggleTaskCompletion return not-found and write nothing.
C15_ReadFailureDegrades ==
    [][/\ ~usersFileOk' => getUsers' = <<>>
       /\ ~tasksFileOk' => getTasks(null)' = <<>>
       /\ (Called /\ ~usersFileOk) =>
             /\ last'.op = "authenticateUser" => last'.ret.success = FALSE
             /\ last'.op = "getUserById" => last'.ret = nullUser
       /\ (Called /\ ~tasksFileOk) =>
             /\ last'.op = "getTasks" => last'.ret = <<>>
             /\ last'.op \in {"updateTask", "deleteTask", "toggleTaskCompletion"}
                  => /\ last'.ret = notFound
                     /\ ~last'.wrote
                     /\ UNCHANGED <<tasksFile, tasksFileOk>>]_vars

\* neither file can be read, both still hold a record, and updateTask called
\* with the id and the owner of the stored task returned not-found
C15_Witness ==
    /\ ~usersFileOk /\ ~tasksFileOk
    /\ Len(usersFile) = 1
    /\ Len(tasksFile) > 0
    /\ last.op = "updateTask"
    /\ last.ret = notFound
    /\ tasksFile[1].id = last.args.taskId
    /\ tasksFile[1].userId = last.args.userId

\* C16 (as claimed): whatever the backing files hold, a store operation
\* returns a result (a success flag with a message or a value, a record, or
\* null): no call ends with an exception thrown to its caller.
C16_NoExceptionEscapes ==
    last.op \in {"createUser", "authenticateUser", "createTask", "updateTask"}
        => last.ret # thrown

\* C17 (as claimed): a mutating operation whose whole-file write failed
\* leaves both collections as a read returned them before the call.
C17_FailedWriteKeepsContent ==
    [][(/\ Called
        /\ last'.op \in MutatingOps
        /\ ~last'.ret.success
        /\ last'.ret.message \in WriteErrors)
       => (getUsers' = getUsers /\ getTasks(null)' = getTasks(null))]_vars

\* C18 (as claimed): no store operation, whatever read or write failure
\* comes with it, removes or changes a record of users.json: every record
\* the file holds before the call is in the file after it, with the same id,
\* username, email, password digest and createdAt.
C18_UsersKept ==
    [][(Called /\ last'.op \in {"createUser", "getUserById"})
       => \A i \in 1..Len(usersFile) :
             \E j \in 1..Len(usersFile') : usersFile'[j] = usersFile[i]]_vars

\* the stored tasks of a user, and those of them that are completed
ownedBy(userId) ==
    LET owned(task) == task.userId = userId
    IN  SelectSeq(tasksFile, owned)

completedOf(tasks) ==
    LET isCompleted(task) == task.completed
    IN  SelectSeq(tasks, isCompleted)

\* the value the last call returned lists, or counts, exactly the given tasks
Returned(tasks) ==
    /\ last.op = "getTasks" => last.ret = tasks
    /\ last.op = "getTaskStats" =>
          /\ last.ret.total = Len(tasks)
          /\ last.ret.completed = Len(completedOf(tasks))
          /\ last.ret.pending = Len(tasks) - Len(completedOf(tasks))
          /\ last.ret.byPriority.medium = last.ret.pending

\* C19 (as claimed): whatever userId is supplied, getTasks(userId) returns
\* and getTaskStats(userId) counts only the tasks whose userId is the
\* supplied one.
C19_ScopedReads_Claimed ==
    last.op \in {"getTasks", "getTaskStats"} => Returned(ownedBy(last.args.userId))

\* C19 (amended): for a truthy userId, getTasks(userId) returns and
\* getTaskStats(userId) counts exactly the tasks whose userId is the supplied
\* one; for a falsy userId (null, the default) they return and count every
\* stored task, whoever owns it.
C19_ScopedReads ==
    last.op \in {"getTasks", "getTaskStats"} =>
        IF truthyId(last.args.userId)
        THEN Returned(ownedBy(last.args.userId))
        ELSE Returned(tasksFile)

\* each of two users has a stored task and getTaskStats for one user counted
\* one task
C19_Witness ==
    /\ last.op = "getTaskStats"
    /\ last.args.userId = 1
    /\ last.ret.total = 1
    /\ Len(ownedBy(2)) = 1

\* C20 (as claimed): every stored task has a title, and the title is not
\* the empty string.
C20_TitleNonEmpty ==
    \A i \in 1..Len(tasksFile) :
        "title" \in DOMAIN tasksFile[i] /\ tasksFile[i].title # <<>>

\* C21 (as claimed): every stored task has a priority, and it is one of
\* low, medium, high.
C21_PriorityEnum ==
    \A i \in 1..Len(tasksFile) :
        /\ "priority" \in DOMAIN tasksFile[i]
        /\ tasksFile[i].priority \in {low, medium, high}

\* positions of the stored tasks that have the id and the owner a call named
matching(taskId, userId) ==
    {i \in 1..Len(tasksFile) :
        tasksFile[i].id = taskId /\ tasksFile[i].userId = userId}

request(op, c, out) ==
    [op |-> op, client |-> c, called |-> out.called, userId |-> out.userId,
     locals |-> globalMiddleware(session[c]), ret |-> out.ret]

PostAuthLogin ==
    \E c \in Clients, username \in {"ana", ""}, password \in Passwords :
        LET out == postAuthLogin(session[c], username, password)
        IN  /\ session' = [session EXCEPT ![c] = out.userId]
            /\ loggedIn' = [loggedIn EXCEPT
                              ![c] = IF out.ret.success
                                     THEN authenticateUser(username, password).user.id
                                     ELSE @]
            /\ last' = request("POST /auth/login", c, out)
            /\ UNCHANGED <<usersFile, usersFileOk, tasksFile, tasksFileOk, now,
                           inFlight, acknowledged, notArray>>

PostLogout ==
    \E c \in Clients :
        LET out == postLogout(session[c])
        IN  /\ session' = [session EXCEPT ![c] = out.userId]
            /\ loggedIn' = [loggedIn EXCEPT ![c] = null]
            /\ last' = request("POST /logout", c,
                               [called |-> FALSE, userId |-> null, ret |-> out.ret])
            /\ UNCHANGED <<usersFile, usersFileOk, tasksFile, tasksFileOk, now,
                           inFlight, acknowledged, notArray>>

GetDashboard ==
    \E c \in Clients, wantsJson \in BOOLEAN :
        /\ last' = request("GET /dashboard", c, getDashboard(session[c], wantsJson))
        /\ UNCHANGED <<usersFile, usersFileOk, tasksFile, tasksFileOk, now, aside>>

\* the values of the query parameter: absent, the named filters, and a
\* string that names none
Filters == {undefined, filterAll, filterPending, filterCompleted,
            high, medium, low, urgent}

\* GET /api/dashboard-data sent by a client, with a filter of the given set
GetApiDashboardDataWith(filters) ==
    \E c \in Clients, filter \in filters :
        /\ last' = request("GET /api/dashboard-data", c,
                           getApiDashboardData(session[c], filter))
        /\ UNCHANGED <<usersFile, usersFileOk, tasksFile, tasksFileOk, now, aside>>

\* POST /api/tasks sent by a client, with a priority of the given set
PostApiTasksAs(priorities) ==
    \E c \in Clients, priority \in priorities :
        \E id \in IF isLoggedIn(session[c])
                  THEN generateId(idsOf(getTasks(null)))
                  ELSE {null} :
            LET out == postApiTasks(session[c], tea, undefined, priority, id, TRUE)
            IN  /\ saveTasks(out)
                /\ last' = request("POST /api/tasks", c, out)
                /\ UNCHANGED <<usersFile, usersFileOk, now, aside>>

\* PUT /api/tasks/:id sent by a client, with a priority of the given set
PutApiTasksAs(priorities) ==
    \E c \in Clients, taskId \in IdPool, priority \in priorities :
        LET out == putApiTasks(session[c], taskId, tea, undefined, priority, TRUE)
        IN  /\ saveTasks(out)
            /\ last' = request("PUT /api/tasks/:id", c, out)
            /\ UNCHANGED <<usersFile, usersFileOk, now, aside>>

DeleteApiTasks ==
    \E c \in Clients, taskId \in IdPool :
        LET out == deleteApiTasks(session[c], taskId, TRUE)
        IN  /\ saveTasks(out)
            /\ last' = request("DELETE /api/tasks/:id", c, out)
            /\ UNCHANGED <<usersFile, usersFileOk, now, aside>>

PatchApiTasksToggle ==
    \E c \in Clients, taskId \in IdPool :
        LET out == patchApiTasksToggle(session[c], taskId, TRUE)
        IN  /\ saveTasks(out)
            /\ last' = request("PATCH /api/tasks/:id/toggle", c, out)
            /\ UNCHANGED <<usersFile, usersFileOk, now, aside>>

\* a user registers, clients log in and out and use every route behind
\* requireAuth
NextSessions ==
    \/ CreateUserWith({"ana"}, {"a@b.c"}, {"pw1"})
    \/ PostAuthLogin
    \/ PostLogout
    \/ GetDashboard
    \/ GetApiDashboardDataWith({undefined})
    \/ PostApiTasksAs({undefined})
    \/ PutApiTasksAs({medium})
    \/ DeleteApiTasks
    \/ PatchApiTasksToggle

SpecSessions == Init /\ [][NextSessions]_vars

\* the routes behind requireAuth
ProtectedRoutes ==
    {"GET /dashboard", "GET /api/dashboard-data", "POST /api/tasks",
     "PUT /api/tasks/:id", "DELETE /api/tasks/:id", "PATCH /api/tasks/:id/toggle"}

\* a request of a client to a route behind requireAuth has been answered
Protected == Called /\ "client" \in DOMAIN last' /\ last'.op \in ProtectedRoutes

\* C23: a request to /dashboard or to a route under /api/ reaches the store
\* only when the client's session holds the userId that its last successful
\* login set and no logout has destroyed since, and the store is called with
\* that userId; a request of a client with no such session calls no store
\* operation, changes no file, and is answered with 401 (under /api/, or when
\* it asks for JSON) or with a redirect to /auth.
C23_SessionGuard ==
    [][Protected =>
         LET c == last'.client
         IN  /\ (last'.called \/ last'.locals.called) =>
                   /\ loggedIn[c] # null
                   /\ session[c] = loggedIn[c]
             /\ last'.called => last'.userId = loggedIn[c]
             /\ last'.locals.called => last'.locals.userId = loggedIn[c]
             /\ (last'.op = "POST /api/tasks" /\ last'.ret.success) =>
                   tasksFile'[Len(tasksFile')].userId = loggedIn[c]
             /\ (last'.op = "GET /api/dashboard-data" /\ last'.called) =>
                   \A i \in 1..Len(last'.ret.allTasks) :
                       last'.ret.allTasks[i].userId = loggedIn[c]
             /\ loggedIn[c] = null =>
                   /\ ~last'.called
                   /\ ~last'.locals.called
                   /\ UNCHANGED <<usersFile, usersFileOk, tasksFile, tasksFileOk>>
                   /\ IF last'.op = "GET /dashboard"
                      THEN last'.ret \in {unauthorized, redirectAuth}
                      ELSE last'.ret = unauthorized]_vars

\* a client without a login was refused the dashboard data, while the other
\* client is logged in and has stored a task of its own
C23_Witness ==
    /\ last.op = "GET /api/dashboard-data"
    /\ last.ret = unauthorized
    /\ loggedIn[last.client] = null
    /\ \E c \in Clients :
          /\ loggedIn[c] # null
          /\ \E i \in 1..Len(tasksFile) : tasksFile[i].userId = loggedIn[c]
          /\ \E i \in 1..Len(usersFile) : usersFile[i].id = loggedIn[c]

\* C24 (as claimed): after every successful updateTask or
\* toggleTaskCompletion the updatedAt of the task is the time of the call,
\* also when the patch names an updatedAt, and no stored task has an
\* updatedAt earlier than its createdAt.
C24_Timestamps ==
    [][(/\ Called
        /\ last'.op \in {"updateTask", "toggleTaskCompletion"}
        /\ last'.ret.success)
       => /\ tasksFile'[updatedIndex].updatedAt = now'
          /\ \A i \in 1..Len(tasksFile') :
                tasksFile'[i].updatedAt >= tasksFile'[i].createdAt]_vars

\* C25 (as claimed): a successful createTask keeps every task that the file
\* held before the call, unchanged and in its place, and adds the new task
\* at the end, also when the read of the file inside createTask fails.
C25_CreateKeepsTasks ==
    [][(Called /\ last'.op = "createTask" /\ last'.ret.success)
       => /\ Len(tasksFile') = Len(tasksFile) + 1
          /\ \A i \in 1..Len(tasksFile) : tasksFile'[i] = tasksFile[i]]_vars

\* the stored users a login identifier names: authenticateUser compares it
\* with the username and with the email
namedBy(identifier) ==
    {i \in 1..Len(usersFile) :
        usersFile[i].username = identifier \/ usersFile[i].email = identifier}

\* C26 (as claimed): in every state a login identifier names at most one
\* stored user: no string is the username of one user and the email of
\* another, so authenticateUser can succeed as one user only for a given
\* identifier.
C26_IdentifierResolvesOnce ==
    \A identifier \in Usernames \cup Emails :
        /\ Cardinality(namedBy(identifier)) <= 1
        /\ \A p, q \in Passwords :
              (/\ authenticateUser(identifier, p).success
               /\ authenticateUser(identifier, q).success)
              => authenticateUser(identifier, p).user.id
                   = authenticateUser(identifier, q).user.id

(***************************************************************************)
(* The dashboard data of one response.                                     *)
(***************************************************************************)
\* GET /api/dashboard-data of a request whose session has one of the given
\* userIds, with a filter of the given set
GetApiDashboardDataOf(sessionUserIds, filters) ==
    \E sessionUserId \in sessionUserIds, filter \in filters :
        LET out == getApiDashboardData(sessionUserId, filter)
        IN  /\ last' = [op |-> "GET /api/dashboard-data",
                        args |-> [sessionUserId |-> sessionUserId,
                                  filter |-> filter],
                        called |-> out.called, ret |-> out.ret]
            /\ UNCHANGED <<usersFile, usersFileOk, tasksFile, tasksFileOk, now,
                           aside>>

\* user 1 creates tasks of high priority, changes them with a request that
\* names no priority, completes and reopens them; the dashboard data is
\* asked for with every filter
NextDashboard ==
    \/ CreateTaskWith({1}, {high})
    \/ PutApiTasksWith({tea}, {undefined})
    \/ ToggleTaskCompletionWith({1})
    \/ GetApiDashboardDataOf(Owners \cup {null}, Filters)

SpecDashboard == Init /\ [][NextDashboard]_vars

\* the number that the statistics give for a filter
statOf(stats, filter) ==
    IF filter = filterPending THEN stats.pending
    ELSE IF filter = filterCompleted THEN stats.completed
    ELSE IF filter = high THEN stats.byPriority.high
    ELSE IF filter = medium THEN stats.byPriority.medium
    ELSE IF filter = low THEN stats.byPriority.low
    ELSE stats.total

\* C27: in one dashboard-data response the number of tasks in the filtered
\* list is the number the statistics of that response give for the filter:
\* stats.pending for 'pending', stats.completed for 'completed',
\* stats.byPriority of the priority for 'high', 'medium' and 'low', and
\* stats.total for 'all', for no filter and for every other value; and
\* stats.total is the number of tasks in allTasks.
C27_ListAgreesWithStats ==
    (/\ last.op = "GET /api/dashboard-data"
     /\ "args" \in DOMAIN last
     /\ last.called)
    => /\ last.ret.filter = orElse(last.args.filter, filterAll)
       /\ Len(last.ret.tasks) = statOf(last.ret.stats, last.ret.filter)
       /\ Len(last.ret.allTasks) = last.ret.stats.total

\* the response to filter 'high' lists the one pending task of high
\* priority; the user's other task is completed and has no priority
C27_Witness ==
    /\ last.op = "GET /api/dashboard-data"
    /\ "args" \in DOMAIN last
    /\ last.called
    /\ last.ret.filter = high
    /\ Len(last.ret.tasks) = 1
    /\ last.ret.stats.total = 2
    /\ last.ret.stats.completed = 1
    /\ \E i \in 1..2 :
          /\ last.ret.allTasks[i].completed
          /\ "priority" \notin DOMAIN last.ret.allTasks[i]

====
